---- MODULE Spec2Model ----
(***************************************************************************)
(* Model of fuzz/fuzz_assert.c of libfido2: the tagged record codec        *)
(* (pack, unpack), the canonical record (pack_dummy), the custom mutator   *)
(* (LLVMFuzzerCustomMutator) and the exercise function                     *)
(* (LLVMFuzzerTestOneInput).                                               *)
(*                                                                         *)
(* The field codec and the field mutators (pack_byte, unpack_blob,         *)
(* mutate_byte, ... of mutator_aux.c) are not part of fuzz_assert.c; they  *)
(* are modelled from sections 4.1 and 4.3 of the specification.            *)
(*                                                                         *)
(* Bytes are 0..255.  A C int is a signed 32-bit value; an unsigned int is *)
(* kept as its two 16-bit halves [hi, lo] so that the conversions between  *)
(* the two are computed and not assumed.  A buffer is the sequence of its  *)
(* bytes, index 1 being offset 0.                                          *)
(***************************************************************************)
EXTENDS Integers, Sequences, FiniteSets, TLC

VARIABLES
  data,     \* the engine's buffer: the bytes it physically holds
  size,     \* number of valid bytes of data (the current unit)
  rng,      \* state of the process-wide pseudo-random source
  hist,     \* log of the LLVMFuzzerCustomMutator calls made so far
  events,   \* calls made to the library by the last LLVMFuzzerTestOneInput
  tested,   \* what the last LLVMFuzzerTestOneInput was given and found
  steps,    \* number of entry-point calls made so far
  cop,      \* codec harness: last codec operation
  crec,     \* codec harness: the record handed to pack
  cbuf,     \* codec harness: the bytes pack produced
  cn,       \* codec harness: the length pack returned
  ck,       \* codec harness: the length handed to unpack
  cres      \* codec harness: what unpack returned

vars == <<data, size, rng, hist, events, tested, steps,
          cop, crec, cbuf, cn, ck, cres>>

(***************************************************************************)
(* Tags, fuzz_assert.c lines 22-36.                                        *)
(***************************************************************************)
TAG_U2F == 1
TAG_TYPE == 2
TAG_CDH == 3
TAG_RP_ID == 4
TAG_EXT == 5
TAG_SEED == 6
TAG_UP == 7
TAG_UV == 8
TAG_WIRE_DATA == 9
TAG_CRED_COUNT == 10
TAG_CRED == 11
TAG_ES256 == 12
TAG_RS256 == 13
TAG_PIN == 14
TAG_EDDSA == 15

\* Capacity of a string field of struct param, terminator included.
MAXSTR == 1024
\* Capacity of the body of a struct blob.
MAXBLOB == 3072
\* sizeof(blob) of the staging buffers of pack_dummy and of the mutator.
BLOBSIZE == 16384
\* fido/param.h
FIDO_EXT_HMAC_SECRET == 1

(***************************************************************************)
(* Example parameters, fuzz_assert.c lines 57-294.                         *)
(***************************************************************************)
dummy_cdh ==
  <<236, 141, 143, 120, 66, 74, 43, 183, 130, 52, 170, 202, 7, 161, 246, 86,
    66, 28, 182, 246, 179, 0, 134, 82, 53, 45, 162, 98, 74, 190, 137, 118>>

dummy_es256 ==
  <<204, 27, 80, 172, 196, 25, 248, 58, 238, 10, 119, 214, 243, 83, 219, 239,
    242, 185, 92, 45, 139, 30, 82, 88, 136, 244, 11, 133, 31, 64, 109, 24,
    21, 179, 204, 37, 124, 56, 61, 236, 223, 173, 189, 70, 145, 195, 172, 48,
    148, 42, 247, 120, 53, 112, 89, 111, 40, 203, 142, 7, 133, 181, 145, 150>>

dummy_rs256 ==
  <<210, 168, 192, 17, 130, 158, 87, 46, 96, 174, 140, 176, 9, 225, 88, 43,
    153, 236, 195, 17, 27, 239, 129, 73, 52, 83, 106, 1, 101, 44, 36, 9,
    48, 135, 152, 81, 110, 48, 79, 96, 189, 84, 210, 84, 189, 148, 66, 221,
    99, 229, 44, 198, 4, 50, 192, 143, 114, 213, 180, 240, 79, 66, 229, 176,
    162, 149, 17, 254, 216, 176, 101, 52, 255, 251, 68, 151, 82, 252, 103, 35,
    11, 173, 243, 58, 130, 212, 150, 16, 135, 107, 250, 214, 81, 96, 62, 28,
    174, 25, 184, 206, 8, 174, 154, 238, 120, 22, 34, 204, 146, 203, 168, 149,
    52, 229, 185, 66, 106, 240, 46, 130, 31, 76, 125, 132, 148, 104, 123, 151,
    43, 247, 125, 103, 131, 187, 199, 138, 49, 90, 243, 42, 149, 223, 99, 231,
    78, 238, 38, 218, 135, 0, 226, 35, 74, 51, 154, 160, 27, 206, 96, 31,
    152, 161, 176, 219, 191, 32, 89, 39, 242, 6, 217, 190, 55, 164, 3, 107,
    106, 78, 175, 34, 104, 243, 255, 40, 89, 5, 201, 241, 40, 244, 187, 53,
    224, 194, 104, 194, 170, 84, 172, 140, 193, 105, 158, 75, 50, 252, 83, 88,
    133, 125, 63, 81, 209, 201, 3, 2, 19, 97, 98, 218, 248, 254, 62, 200,
    149, 18, 251, 12, 223, 6, 101, 111, 35, 199, 131, 124, 80, 45, 39, 37,
    77, 191, 148, 240, 137, 4, 185, 45, 196, 165, 50, 169, 37, 10, 153, 89,
    1, 0, 1>>

dummy_eddsa ==
  <<254, 139, 97, 80, 49, 122, 230, 223, 177, 4, 157, 77, 181, 122, 94, 150,
    76, 178, 249, 95, 114, 71, 181, 24, 226, 57, 223, 47, 135, 25, 179, 2>>

dummy_wire_data_fido ==
  <<255, 255, 255, 255, 134, 0, 17, 247, 111, 218, 82, 253, 203, 182, 36, 0,
    146, 0, 14, 2, 5, 0, 2, 5, 0, 0, 0, 0, 0, 0, 0, 0,
    0, 0, 0, 0, 0, 0, 0, 0, 0, 0, 0, 0, 0, 0, 0, 0,
    0, 0, 0, 0, 0, 0, 0, 0, 0, 0, 0, 0, 0, 0, 0, 0,
    0, 146, 0, 14, 144, 0, 81, 0, 161, 1, 165, 1, 2, 3, 56, 24,
    32, 1, 33, 88, 32, 233, 29, 155, 172, 20, 37, 95, 218, 30, 17, 219,
    174, 194, 144, 34, 202, 50, 236, 50, 230, 5, 21, 68, 229, 232, 188, 79,
    10, 182, 26, 235, 17, 34, 88, 32, 204, 114, 240, 34, 232, 40, 130, 197,
    0, 146, 0, 14, 0, 166, 101, 110, 255, 30, 227, 127, 39, 68, 45, 251,
    141, 65, 250, 133, 14, 203, 218, 149, 100, 100, 155, 31, 52, 0, 0, 0,
    0, 0, 0, 0, 0, 0, 0, 0, 0, 0, 0, 0, 0, 0, 0, 0,
    0, 0, 0, 0, 0, 0, 0, 0, 0, 0, 0, 0, 0, 0, 0, 0,
    0, 146, 0, 14, 144, 0, 20, 0, 161, 2, 80, 238, 64, 76, 133, 215,
    161, 47, 86, 196, 78, 197, 147, 65, 208, 59, 35, 0, 0, 0, 0, 0,
    0, 0, 0, 0, 0, 0, 0, 0, 0, 0, 0, 0, 0, 0, 0, 0,
    0, 0, 0, 0, 0, 0, 0, 0, 0, 0, 0, 0, 0, 0, 0, 0,
    0, 146, 0, 14, 144, 0, 203, 0, 163, 1, 162, 98, 105, 100, 88, 64,
    74, 76, 158, 204, 129, 125, 66, 3, 43, 65, 209, 56, 211, 73, 180, 252,
    251, 228, 78, 228, 255, 118, 52, 22, 104, 6, 157, 166, 1, 50, 185, 255,
    194, 53, 13, 137, 67, 102, 18, 248, 142, 91, 222, 244, 204, 236, 157, 3,
    0, 146, 0, 14, 0, 133, 194, 245, 230, 142, 235, 63, 58, 236, 195, 29,
    4, 110, 243, 91, 136, 100, 116, 121, 112, 101, 106, 112, 117, 98, 108, 105,
    99, 45, 107, 101, 121, 2, 88, 37, 73, 150, 13, 229, 136, 14, 140, 104,
    116, 52, 23, 15, 100, 118, 96, 91, 143, 228, 174, 185, 162, 134, 50, 199,
    0, 146, 0, 14, 1, 153, 92, 243, 186, 131, 29, 151, 99, 4, 0, 0,
    0, 9, 3, 88, 71, 48, 69, 2, 33, 0, 207, 63, 54, 14, 31, 111,
    214, 160, 157, 19, 207, 85, 247, 73, 143, 200, 201, 3, 18, 118, 65, 117,
    123, 181, 10, 144, 165, 130, 38, 241, 107, 128, 2, 32, 52, 155, 122, 130,
    0, 146, 0, 14, 2, 211, 225, 121, 73, 85, 65, 159, 164, 6, 6, 189,
    200, 185, 43, 95, 225, 167, 153, 28, 161, 252, 126, 62, 213, 133, 46, 17,
    117, 0, 0, 0, 0, 0, 0, 0, 0, 0, 0, 0, 0, 0, 0, 0,
    0, 0, 0, 0, 0, 0, 0, 0, 0, 0, 0, 0, 0, 0, 0, 0>>

dummy_wire_data_u2f ==
  <<255, 255, 255, 255, 134, 0, 17, 15, 38, 156, 211, 135, 13, 123, 246, 0,
    0, 153, 1, 2, 1, 1, 0, 1, 0, 0, 0, 0, 0, 0, 0, 0,
    0, 0, 0, 0, 0, 0, 0, 0, 0, 0, 0, 0, 0, 0, 0, 0,
    0, 0, 0, 0, 0, 0, 0, 0, 0, 0, 0, 0, 0, 0, 0, 0,
    0, 0, 153, 1, 131, 0, 2, 105, 133, 0, 0, 0, 0, 0, 0, 0,
    0, 0, 0, 0, 0, 0, 0, 0, 0, 0, 0, 0, 0, 0, 0, 0,
    0, 0, 0, 0, 0, 0, 0, 0, 0, 0, 0, 0, 0, 0, 0, 0,
    0, 0, 0, 0, 0, 0, 0, 0, 0, 0, 0, 0, 0, 0, 0, 0,
    0, 0, 153, 1, 131, 0, 2, 105, 133, 0, 0, 0, 0, 0, 0, 0,
    0, 0, 0, 0, 0, 0, 0, 0, 0, 0, 0, 0, 0, 0, 0, 0,
    0, 0, 0, 0, 0, 0, 0, 0, 0, 0, 0, 0, 0, 0, 0, 0,
    0, 0, 0, 0, 0, 0, 0, 0, 0, 0, 0, 0, 0, 0, 0, 0,
    0, 0, 153, 1, 131, 0, 2, 105, 133, 0, 0, 0, 0, 0, 0, 0,
    0, 0, 0, 0, 0, 0, 0, 0, 0, 0, 0, 0, 0, 0, 0, 0,
    0, 0, 0, 0, 0, 0, 0, 0, 0, 0, 0, 0, 0, 0, 0, 0,
    0, 0, 0, 0, 0, 0, 0, 0, 0, 0, 0, 0, 0, 0, 0, 0,
    0, 0, 153, 1, 131, 0, 2, 105, 133, 0, 0, 0, 0, 0, 0, 0,
    0, 0, 0, 0, 0, 0, 0, 0, 0, 0, 0, 0, 0, 0, 0, 0,
    0, 0, 0, 0, 0, 0, 0, 0, 0, 0, 0, 0, 0, 0, 0, 0,
    0, 0, 0, 0, 0, 0, 0, 0, 0, 0, 0, 0, 0, 0, 0, 0,
    0, 0, 153, 1, 131, 0, 2, 105, 133, 0, 0, 0, 0, 0, 0, 0,
    0, 0, 0, 0, 0, 0, 0, 0, 0, 0, 0, 0, 0, 0, 0, 0,
    0, 0, 0, 0, 0, 0, 0, 0, 0, 0, 0, 0, 0, 0, 0, 0,
    0, 0, 0, 0, 0, 0, 0, 0, 0, 0, 0, 0, 0, 0, 0, 0,
    0, 0, 153, 1, 131, 0, 2, 105, 133, 0, 0, 0, 0, 0, 0, 0,
    0, 0, 0, 0, 0, 0, 0, 0, 0, 0, 0, 0, 0, 0, 0, 0,
    0, 0, 0, 0, 0, 0, 0, 0, 0, 0, 0, 0, 0, 0, 0, 0,
    0, 0, 0, 0, 0, 0, 0, 0, 0, 0, 0, 0, 0, 0, 0, 0,
    0, 0, 153, 1, 131, 0, 2, 105, 133, 0, 0, 0, 0, 0, 0, 0,
    0, 0, 0, 0, 0, 0, 0, 0, 0, 0, 0, 0, 0, 0, 0, 0,
    0, 0, 0, 0, 0, 0, 0, 0, 0, 0, 0, 0, 0, 0, 0, 0,
    0, 0, 0, 0, 0, 0, 0, 0, 0, 0, 0, 0, 0, 0, 0, 0,
    0, 0, 153, 1, 131, 0, 2, 105, 133, 0, 0, 0, 0, 0, 0, 0,
    0, 0, 0, 0, 0, 0, 0, 0, 0, 0, 0, 0, 0, 0, 0, 0,
    0, 0, 0, 0, 0, 0, 0, 0, 0, 0, 0, 0, 0, 0, 0, 0,
    0, 0, 0, 0, 0, 0, 0, 0, 0, 0, 0, 0, 0, 0, 0, 0,
    0, 0, 153, 1, 131, 0, 2, 105, 133, 0, 0, 0, 0, 0, 0, 0,
    0, 0, 0, 0, 0, 0, 0, 0, 0, 0, 0, 0, 0, 0, 0, 0,
    0, 0, 0, 0, 0, 0, 0, 0, 0, 0, 0, 0, 0, 0, 0, 0,
    0, 0, 0, 0, 0, 0, 0, 0, 0, 0, 0, 0, 0, 0, 0, 0,
    0, 0, 153, 1, 131, 0, 78, 1, 0, 0, 0, 44, 48, 69, 2, 32,
    28, 245, 124, 246, 222, 190, 233, 134, 238, 151, 183, 100, 163, 78, 122, 112,
    133, 208, 102, 249, 240, 205, 4, 93, 151, 242, 60, 34, 227, 14, 97, 200,
    2, 33, 0, 151, 239, 174, 54, 230, 23, 159, 94, 45, 215, 140, 52, 167,
    0, 0, 153, 1, 0, 161, 233, 251, 143, 134, 140, 227, 30, 222, 63, 78,
    27, 225, 47, 143, 47, 202, 66, 38, 144, 0, 0, 0, 0, 0, 0, 0,
    0, 0, 0, 0, 0, 0, 0, 0, 0, 0, 0, 0, 0, 0, 0, 0,
    0, 0, 0, 0, 0, 0, 0, 0, 0, 0, 0, 0, 0, 0, 0, 0>>

\* "localhost"
dummy_rp_id ==
  <<108, 111, 99, 97, 108, 104, 111, 115, 116>>

\* "9}4gT:8d=A37Dh}U"
dummy_pin ==
  <<57, 125, 52, 103, 84, 58, 56, 100, 61, 65, 51, 55, 68, 104, 125, 85>>

(***************************************************************************)
(* Integer representations.                                                *)
(***************************************************************************)
Min(a, b) == IF a < b THEN a ELSE b
Max(a, b) == IF a > b THEN a ELSE b

\* F applied to the value of x, x being evaluated once.
Let1(x, F(_)) == CHOOSE y \in { F(v) : v \in {x} } : TRUE

\* F folded over the elements i, i+1, ... of xs, starting from acc.
RECURSIVE Fold(_, _, _, _)
Fold(F(_, _), xs, i, acc) ==
  IF i > Len(xs) THEN acc
  ELSE Let1(F(acc, xs[i]), LAMBDA a : Fold(F, xs, i + 1, a))

\* The largest value the model holds; stands for every size_t above it.
SIZE_HUGE == 2147483647

\* The low 31 bits of a C int, and its sign bit.
Low31(v) == IF v < 0 THEN (v + 2147483647) + 1 ELSE v

\* The four bytes of a C int in memory (little endian, two's complement).
IntBytes(v) ==
  LET u == Low31(v)
  IN  << u % 256, (u \div 256) % 256, (u \div 65536) % 256,
         (u \div 16777216) + (IF v < 0 THEN 128 ELSE 0) >>

\* The C int held by four bytes of memory.
BytesInt(b) ==
  LET low == b[1] + 256 * b[2] + 65536 * b[3] + 16777216 * (b[4] % 128)
  IN  IF b[4] >= 128 THEN (low - 2147483647) - 1 ELSE low

\* The eight bytes of a size_t in memory.
SizeBytes(n) ==
  << n % 256, (n \div 256) % 256, (n \div 65536) % 256, n \div 16777216,
     0, 0, 0, 0 >>

\* The size_t held by eight bytes of memory; SIZE_HUGE for 2^31 and above.
BytesSize(b) ==
  IF b[4] >= 128 \/ b[5] # 0 \/ b[6] # 0 \/ b[7] # 0 \/ b[8] # 0
  THEN SIZE_HUGE
  ELSE b[1] + 256 * b[2] + 65536 * b[3] + 16777216 * b[4]

\* (int)u for an unsigned int u = [hi, lo].
IntOfUnsigned(u) ==
  IF u.hi >= 32768 THEN (u.hi - 65536) * 65536 + u.lo
  ELSE u.hi * 65536 + u.lo

\* (unsigned int)v for an int v.
UnsignedOfInt(v) ==
  LET w == Low31(v)
  IN  [hi |-> (w \div 65536) + (IF v < 0 THEN 32768 ELSE 0), lo |-> w % 65536]

\* strlen of the characters held by a char array.
strlen(s) ==
  LET Z == {i \in 1..Len(s) : s[i] = 0}
  IN  IF Z = {} THEN Len(s)
      ELSE (CHOOSE i \in Z : \A j \in Z : i <= j) - 1

(***************************************************************************)
(* struct param, fuzz_assert.c lines 39-55.  A string field holds the      *)
(* characters in front of the terminator that was written last; a blob     *)
(* field holds body[0..len).                                               *)
(***************************************************************************)
ZeroParam ==
  [pin |-> <<>>, rp_id |-> <<>>, ext |-> 0, seed |-> 0,
   cdh |-> <<>>, cred |-> <<>>, es256 |-> <<>>, rs256 |-> <<>>,
   eddsa |-> <<>>, wire_data |-> <<>>,
   cred_count |-> 0, type |-> 0, u2f |-> 0, up |-> 0, uv |-> 0]

(***************************************************************************)
(* Field codec (section 4.1).  A cursor c is [pos, len, rd]: the bytes     *)
(* consumed, the bytes remaining, and the highest index read so far.       *)
(***************************************************************************)
Cursor(len) == [pos |-> 0, len |-> len, rd |-> 0]

Advance(c, n) ==
  [pos |-> c.pos + n, len |-> c.len - n, rd |-> Max(c.rd, c.pos + n)]

Touch(c, n) == [c EXCEPT !.rd = Max(c.rd, c.pos + n)]

Rejected(c, e) == [ok |-> FALSE, err |-> e, v |-> 0, c |-> c]

Accepted(c, v) == [ok |-> TRUE, err |-> "", v |-> v, c |-> c]

unpack_byte(t, buf, c) ==
  IF c.len < 2 THEN Rejected(c, "Truncated")
  ELSE IF buf[c.pos + 1] # t THEN Rejected(Touch(c, 1), "TagMismatch")
  ELSE Accepted(Advance(c, 2), buf[c.pos + 2])

unpack_int(t, buf, c) ==
  IF c.len < 5 THEN Rejected(c, "Truncated")
  ELSE IF buf[c.pos + 1] # t THEN Rejected(Touch(c, 1), "TagMismatch")
  ELSE Accepted(Advance(c, 5), BytesInt(SubSeq(buf, c.pos + 2, c.pos + 5)))

\* Tag, length and payload of a string or blob whose payload may hold at
\* most max bytes.
unpack_payload(t, buf, c, max) ==
  IF c.len < 9 THEN Rejected(c, "Truncated")
  ELSE IF buf[c.pos + 1] # t THEN Rejected(Touch(c, 1), "TagMismatch")
  ELSE LET l == BytesSize(SubSeq(buf, c.pos + 2, c.pos + 9))
       IN  IF l > max THEN Rejected(Touch(c, 9), "Overflow")
           ELSE IF l > c.len - 9 THEN Rejected(Touch(c, 9), "Truncated")
           ELSE Accepted(Advance(c, 9 + l),
                         SubSeq(buf, c.pos + 10, c.pos + 9 + l))

unpack_string(t, buf, c) == unpack_payload(t, buf, c, MAXSTR - 1)

unpack_blob(t, buf, c) == unpack_payload(t, buf, c, MAXBLOB)

\* The pack side: len is the space remaining; the result holds the bytes
\* written (none on failure) and the space left.
Written(len, bytes) ==
  IF Len(bytes) > len THEN [ok |-> FALSE, bytes |-> <<>>, len |-> len]
  ELSE [ok |-> TRUE, bytes |-> bytes, len |-> len - Len(bytes)]

pack_byte(t, len, v) == Written(len, <<t, v>>)

pack_int(t, len, v) == Written(len, <<t>> \o IntBytes(v))

pack_string(t, len, s) ==
  LET n == strlen(s)
  IN  IF 9 + n > len THEN [ok |-> FALSE, bytes |-> <<>>, len |-> len]
      ELSE Written(len, <<t>> \o SizeBytes(n) \o SubSeq(s, 1, n))

pack_blob(t, len, b) ==
  IF 9 + Len(b) > len THEN [ok |-> FALSE, bytes |-> <<>>, len |-> len]
  ELSE Written(len, <<t>> \o SizeBytes(Len(b)) \o b)

(***************************************************************************)
(* Record codec, fuzz_assert.c lines 299-347.                              *)
(***************************************************************************)
Field(t, k, n) == [tag |-> t, kind |-> k, name |-> n]

\* The fields in the order unpack reads them, lines 304-318.
UnpackFields ==
  << Field(TAG_UV, "byte", "uv"),
     Field(TAG_UP, "byte", "up"),
     Field(TAG_U2F, "byte", "u2f"),
     Field(TAG_TYPE, "byte", "type"),
     Field(TAG_CRED_COUNT, "byte", "cred_count"),
     Field(TAG_EXT, "int", "ext"),
     Field(TAG_SEED, "int", "seed"),
     Field(TAG_RP_ID, "string", "rp_id"),
     Field(TAG_PIN, "string", "pin"),
     Field(TAG_WIRE_DATA, "blob", "wire_data"),
     Field(TAG_RS256, "blob", "rs256"),
     Field(TAG_ES256, "blob", "es256"),
     Field(TAG_EDDSA, "blob", "eddsa"),
     Field(TAG_CRED, "blob", "cred"),
     Field(TAG_CDH, "blob", "cdh") >>

\* A pack that writes the client-data hash in front of the credential.
PackFieldsSwapped ==
  [i \in 1..15 |-> IF i = 14 THEN UnpackFields[15]
                   ELSE IF i = 15 THEN UnpackFields[14]
                   ELSE UnpackFields[i]]

\* The fields in the order pack writes them, lines 329-343.
PackFields ==
  << Field(TAG_UV, "byte", "uv"),
     Field(TAG_UP, "byte", "up"),
     Field(TAG_U2F, "byte", "u2f"),
     Field(TAG_TYPE, "byte", "type"),
     Field(TAG_CRED_COUNT, "byte", "cred_count"),
     Field(TAG_EXT, "int", "ext"),
     Field(TAG_SEED, "int", "seed"),
     Field(TAG_RP_ID, "string", "rp_id"),
     Field(TAG_PIN, "string", "pin"),
     Field(TAG_WIRE_DATA, "blob", "wire_data"),
     Field(TAG_RS256, "blob", "rs256"),
     Field(TAG_ES256, "blob", "es256"),
     Field(TAG_EDDSA, "blob", "eddsa"),
     Field(TAG_CRED, "blob", "cred"),
     Field(TAG_CDH, "blob", "cdh") >>

unpack_field(f, buf, c) ==
  CASE f.kind = "byte" -> unpack_byte(f.tag, buf, c)
    [] f.kind = "int" -> unpack_int(f.tag, buf, c)
    [] f.kind = "string" -> unpack_string(f.tag, buf, c)
    [] f.kind = "blob" -> unpack_blob(f.tag, buf, c)

pack_field(f, len, p) ==
  CASE f.kind = "byte" -> pack_byte(f.tag, len, p[f.name])
    [] f.kind = "int" -> pack_int(f.tag, len, p[f.name])
    [] f.kind = "string" -> pack_string(f.tag, len, p[f.name])
    [] f.kind = "blob" -> pack_blob(f.tag, len, p[f.name])

\* One field of unpack: st is [ok, err, p, c], what the fields in front of
\* f left; a failed field ends the chain.
UnpackStep(buf, st, f) ==
  IF ~st.ok THEN st
  ELSE Let1(unpack_field(f, buf, st.c),
            LAMBDA r : IF ~r.ok
                       THEN [ok |-> FALSE, err |-> r.err, p |-> st.p, c |-> r.c]
                       ELSE [ok |-> TRUE, err |-> "", c |-> r.c,
                             p |-> [st.p EXCEPT ![f.name] = r.v]])

unpack_fields(fields, ptr, len, p) ==
  Fold(LAMBDA st, f : UnpackStep(ptr, st, f), fields, 1,
       [ok |-> TRUE, err |-> "", p |-> p, c |-> Cursor(len)])

\* An unpack that stops in front of the last field.
unpack_short(ptr, len, p) ==
  unpack_fields(SubSeq(UnpackFields, 1, 14), ptr, len, p)

\* unpack(ptr, len, p): ok is (return value = 0); p is the record as the
\* call leaves it, filled up to the field that failed; c.rd is the highest
\* index of ptr that was read.
unpack(ptr, len, p) == unpack_fields(UnpackFields, ptr, len, p)

\* One field of pack: st is [ok, blob, len], the bytes written and the
\* space left by the fields in front of f.
PackStep(p, st, f) ==
  IF ~st.ok THEN st
  ELSE Let1(pack_field(f, st.len, p),
            LAMBDA r : IF ~r.ok THEN [st EXCEPT !.ok = FALSE]
                       ELSE [ok |-> TRUE, blob |-> st.blob \o r.bytes,
                             len |-> r.len])

\* pack(ptr, len, p): n is the return value, blob the bytes written at ptr.
pack(len, p) ==
  Let1(Fold(LAMBDA st, f : PackStep(p, st, f), PackFields, 1,
            [ok |-> TRUE, blob |-> << >>, len |-> len]),
       LAMBDA r : [n |-> IF r.ok THEN len - r.len ELSE 0, blob |-> r.blob])

(***************************************************************************)
(* The pseudo-random source and the field mutators (section 4.3, step 3).  *)
(* The source is process-wide: every draw advances rng.                    *)
(***************************************************************************)
RAND_MOD == 65536
RAND_MUL == 25173
RAND_INC == 13849

\* srandom(u): reseeds the source from an unsigned int.
srandom(u) == u.lo % RAND_MOD

\* random(): the next state of the source, which is also the value drawn.
random(r) == (RAND_MUL * r + RAND_INC) % RAND_MOD

\* A scalar byte is replaced by a pseudo-random byte.
mutate_byte(b, r) ==
  Let1(random(r), LAMBDA r1 : [v |-> (r1 \div 256) % 256, rng |-> r1])

\* A variable integer is replaced by a pseudo-random int.
mutate_int(i, r) ==
  Let1(random(r), LAMBDA r1 :
  Let1(random(r1), LAMBDA r2 :
    [v |-> IntOfUnsigned([hi |-> r1, lo |-> r2]), rng |-> r2]))

\* The edit op of s with position draw r2 and byte b.
Edited(s, max, op, r2, b) ==
  CASE op = 0 /\ Len(s) > 0 -> [s EXCEPT ![1 + (r2 % Len(s))] = b]
    [] op = 1 /\ Len(s) < max -> Append(s, b)
    [] op = 2 /\ Len(s) > 0 -> SubSeq(s, 1, Len(s) - 1)
    [] OTHER -> s

\* One pseudo-random edit of at most max bytes: a byte substituted, a byte
\* appended or the last byte dropped; low is the least byte value written.
mutate_bytes(s, max, low, r) ==
  Let1(random(r), LAMBDA r1 :
  Let1(random(r1), LAMBDA r2 :
  Let1(random(r2), LAMBDA r3 :
    [v |-> Edited(s, max, (r1 \div 256) % 3, r2,
                  low + ((r3 \div 256) % (256 - low))),
     rng |-> r3])))

\* A blob keeps at most MAXBLOB bytes.
mutate_blob(b, r) == mutate_bytes(b, MAXBLOB, 0, r)

\* A string keeps its terminator within MAXSTR bytes.
mutate_string(s, r) == mutate_bytes(SubSeq(s, 1, strlen(s)), MAXSTR - 1, 1, r)

(***************************************************************************)
(* pack_dummy, fuzz_assert.c lines 564-603.                                *)
(***************************************************************************)
strlcpy(src, dstsize) == SubSeq(src, 1, Min(strlen(src), dstsize - 1))

\* The record pack_dummy builds, lines 571-590.
DummyParam ==
  [ZeroParam EXCEPT
     !.type = 1,
     !.ext = FIDO_EXT_HMAC_SECRET,
     !.pin = strlcpy(dummy_pin, MAXSTR),
     !.rp_id = strlcpy(dummy_rp_id, MAXSTR),
     !.cdh = dummy_cdh,
     !.wire_data = dummy_wire_data_fido,
     !.es256 = dummy_es256,
     !.rs256 = dummy_rs256,
     !.eddsa = dummy_eddsa]

\* The encoding cut to len bytes when it is longer.
CutTo(r, len) ==
  IF r.n > len
  THEN [n |-> len, bytes |-> SubSeq(r.blob, 1, len), abort |-> r.n = 0]
  ELSE [n |-> r.n, bytes |-> SubSeq(r.blob, 1, r.n), abort |-> r.n = 0]

\* pack_dummy(ptr, len): n is the return value, bytes what memcpy wrote at
\* ptr, abort whether the assertion of line 593 failed.
pack_dummy(len) ==
  Let1(pack(BLOBSIZE, DummyParam), LAMBDA r : CutTo(r, len))

(***************************************************************************)
(* LLVMFuzzerCustomMutator, fuzz_assert.c lines 605-657.                   *)
(***************************************************************************)
\* The scalar fields in the order of lines 620-624.
ByteFields == << "uv", "up", "u2f", "type", "cred_count" >>

\* The blobs in the order of lines 639-644.
BlobFields == << "wire_data", "rs256", "es256", "eddsa", "cred", "cdh" >>

\* The strings in the order of lines 646-647.
StringFields == << "rp_id", "pin" >>

\* st is [p, rng]: the record and the source; one field is mutated.
Stored(st, name, m) == [p |-> [st.p EXCEPT ![name] = m.v], rng |-> m.rng]

MutateByteField(st, name) ==
  Let1(mutate_byte(st.p[name], st.rng), LAMBDA m : Stored(st, name, m))

MutateBlobField(st, name) ==
  Let1(mutate_blob(st.p[name], st.rng), LAMBDA m : Stored(st, name, m))

MutateStringField(st, name) ==
  Let1(mutate_string(st.p[name], st.rng), LAMBDA m : Stored(st, name, m))

\* A seed field drawn from the source like the extension mask.
SeedDrawn(st, seed) ==
  Let1(mutate_int(st.p.seed, st.rng), LAMBDA m : Stored(st, "seed", m))

\* Line 627: p.seed = (int)seed.
SeedSet(st, seed) == [st EXCEPT !.p.seed = IntOfUnsigned(seed)]

\* Lines 620-627: the scalar fields, the extension mask and the seed.
MutateScalars(p, seed, r) ==
  Let1(Fold(MutateByteField, ByteFields, 1, [p |-> p, rng |-> r]),
       LAMBDA st :
  Let1(mutate_int(st.p.ext, st.rng), LAMBDA m :
       SeedSet(Stored(st, "ext", m), seed)))

\* Lines 629-637: the wire data the record is given for its transport flag.
WireDataFor(u2f) ==
  IF u2f % 2 = 1 THEN dummy_wire_data_u2f ELSE dummy_wire_data_fido

\* Lines 639-647: the blobs, then the strings.
MutateBlobsAndStrings(p, r) ==
  Let1(Fold(MutateBlobField, BlobFields, 1, [p |-> p, rng |-> r]),
       LAMBDA st : Fold(MutateStringField, StringFields, 1, st))

\* A re-derivation that looks at the transport flag of the input.
RederiveFromInput(in, p) == [p EXCEPT !.wire_data = WireDataFor(in.u2f)]

\* Lines 629-637 applied to record p, which was decoded as record in.
RederiveWireData(in, p) == [p EXCEPT !.wire_data = WireDataFor(p.u2f)]

\* A fallback that encodes what unpack had filled in before it failed.
OnRejectKeep(p, maxsize, r) ==
  Let1(pack(BLOBSIZE, [DummyParam EXCEPT !.uv = p.uv, !.up = p.up,
                                         !.u2f = p.u2f]),
       LAMBDA b : [n |-> Min(b.n, maxsize),
                   bytes |-> SubSeq(b.blob, 1, Min(b.n, maxsize)),
                   rng |-> r, abort |-> FALSE])

\* Lines 617-618: unpack failed and left record p behind.
OnReject(p, maxsize, r) ==
  Let1(pack_dummy(maxsize),
       LAMBDA d : [n |-> d.n, bytes |-> d.bytes, rng |-> r, abort |-> d.abort])

\* An emit that encodes into the caller's buffer and checks the size after.
EmitInPlace(b, maxsize, r) ==
  IF b.n = 0 \/ b.n > maxsize
  THEN [n |-> 0, bytes |-> SubSeq(b.blob, 1, Min(b.n, maxsize)), rng |-> r,
        abort |-> FALSE]
  ELSE [n |-> b.n, bytes |-> SubSeq(b.blob, 1, b.n), rng |-> r,
        abort |-> FALSE]

\* Lines 651-656: b is what pack returned for the staging buffer.
Emit(b, maxsize, r) ==
  IF b.n = 0 \/ b.n > maxsize
  THEN [n |-> 0, bytes |-> <<>>, rng |-> r, abort |-> FALSE]
  ELSE [n |-> b.n, bytes |-> SubSeq(b.blob, 1, b.n), rng |-> r,
        abort |-> FALSE]

\* Lines 620-647: the record p that unpack accepted, mutated; [p, rng].
MutatedRecord(p, seed, r) ==
  Let1(MutateScalars(p, seed, r),
       LAMBDA s : MutateBlobsAndStrings(RederiveWireData(p, s.p), s.rng))

\* Lines 620-656: the record p that unpack accepted is mutated and encoded.
MutateAccepted(p, maxsize, seed, r) ==
  Let1(MutatedRecord(p, seed, r), LAMBDA m :
  Let1(pack(BLOBSIZE, m.p), LAMBDA b : Emit(b, maxsize, m.rng)))

\* LLVMFuzzerCustomMutator(data, size, maxsize, seed) entered with the
\* source in state r: n is the return value, bytes what was written at
\* data, rng the state the source is left in, abort whether the run died.
LLVMFuzzerCustomMutator(buf, sz, maxsize, seed, r) ==
  Let1(unpack(buf, sz, ZeroParam),
       LAMBDA u : IF ~u.ok THEN OnReject(u.p, maxsize, r)
                  ELSE MutateAccepted(u.p, maxsize, seed, r))

(***************************************************************************)
(* LLVMFuzzerTestOneInput and its helpers get_assert, verify_assert,       *)
(* rs256_convert and eddsa_convert, fuzz_assert.c lines 349-562.  The      *)
(* library is an external collaborator: what its calls return is an input  *)
(* o = [fail, count, conv, vnull]: fail names the first call of            *)
(* LLVMFuzzerTestOneInput or get_assert that fails ("none" when all        *)
(* succeed), count is the number of statements fido_assert_count reports   *)
(* once fido_dev_get_assert has run, conv names the call that fails in     *)
(* rs256_convert or eddsa_convert ("none" when none does) and vnull is the *)
(* set of indices for which fido_assert_new returns NULL in verify_assert. *)
(* The trace of the calls made is a sequence of events [op, a, b, by]: by  *)
(* is the function of fuzz_assert.c that makes the call; for a call that   *)
(* can fail, a is 1 when it succeeded and 0 when it failed.  A call of an  *)
(* accessor that is an argument of another call only reads the assertion   *)
(* and is part of the event of that call.                                  *)
(***************************************************************************)
COSE_ES256 == -7
COSE_EDDSA == -8
COSE_RS256 == -257

Event(op, a, b) ==
  [op |-> op, a |-> a, b |-> b, by |-> "LLVMFuzzerTestOneInput"]

\* The calls evs, made by the function fn.
By(fn, evs) == [i \in 1..Len(evs) |-> [evs[i] EXCEPT !.by = fn]]

Repeat(n, e) == [i \in 1..n |-> e]

\* A teardown that frees the device without closing it.
TeardownNoClose ==
  << Event("fido_dev_cancel", 0, 0), Event("fido_dev_free", 0, 0) >>

\* Lines 387-389.
Teardown ==
  << Event("fido_dev_cancel", 0, 0), Event("fido_dev_close", 0, 0),
     Event("fido_dev_free", 0, 0) >>

\* Lines 362-389: the calls of get_assert; for fido_dev_get_assert, a is 1
\* when the PIN is passed and 0 when NULL is.
GetAssertCalls(o, p) ==
  CASE o.fail = "fido_dev_new" ->
         << Event("fido_dev_new", 0, 0), Event("fido_dev_free", 0, 0) >>
    [] o.fail = "fido_dev_set_io_functions" ->
         << Event("fido_dev_new", 1, 0),
            Event("fido_dev_set_io_functions", 0, 0),
            Event("fido_dev_free", 0, 0) >>
    [] o.fail = "fido_dev_open" ->
         << Event("fido_dev_new", 1, 0),
            Event("fido_dev_set_io_functions", 1, 0),
            Event("fido_dev_open", 0, 0),
            Event("fido_dev_free", 0, 0) >>
    [] OTHER ->
         << Event("fido_dev_new", 1, 0),
            Event("fido_dev_set_io_functions", 1, 0),
            Event("fido_dev_open", 1, 0) >>
         \o (IF p.u2f % 2 = 1 THEN << Event("fido_dev_force_u2f", 0, 0) >>
             ELSE << >>)
         \o Repeat(p.cred_count,
                   Event("fido_assert_allow_cred", Len(p.cred), 0))
         \o << Event("fido_assert_set_clientdata_hash", Len(p.cdh), 0),
               Event("fido_assert_set_rp", strlen(p.rp_id), 0) >>
         \o (IF p.ext % 2 = 1
             THEN << Event("fido_assert_set_extensions",
                           FIDO_EXT_HMAC_SECRET, 0) >>
             ELSE << >>)
         \o (IF p.up % 2 = 1 THEN << Event("fido_assert_set_up", 0, 0) >>
             ELSE << >>)
         \o (IF p.uv % 2 = 1 THEN << Event("fido_assert_set_uv", 0, 0) >>
             ELSE << >>)
         \o << Event("fido_assert_set_hmac_salt", Len(p.cred), 0),
               Event("fido_dev_get_assert",
                     IF p.u2f % 2 = 1 THEN 0 ELSE 1, 0) >>
         \o Teardown

\* get_assert, lines 349-390.
get_assert(o, p) == By("get_assert", GetAssertCalls(o, p))

\* rs256_convert, lines 419-438.
rs256_convert(o) ==
  By("rs256_convert",
     CASE o.conv = "to_EVP_PKEY" ->
            << Event("rs256_pk_to_EVP_PKEY", 0, 0) >>
       [] o.conv = "pk_new" ->
            << Event("rs256_pk_to_EVP_PKEY", 1, 0),
               Event("rs256_pk_new", 0, 0),
               Event("EVP_PKEY_free", 0, 0) >>
       [] o.conv = "EVP_PKEY_get0_RSA" ->
            << Event("rs256_pk_to_EVP_PKEY", 1, 0),
               Event("rs256_pk_new", 1, 0),
               Event("EVP_PKEY_get0_RSA", 0, 0),
               Event("rs256_pk_free", 0, 0),
               Event("EVP_PKEY_free", 0, 0) >>
       [] OTHER ->
            << Event("rs256_pk_to_EVP_PKEY", 1, 0),
               Event("rs256_pk_new", 1, 0),
               Event("EVP_PKEY_get0_RSA", 1, 0),
               Event("rs256_pk_from_RSA", 0, 0),
               Event("rs256_pk_free", 0, 0),
               Event("EVP_PKEY_free", 0, 0) >>)

\* eddsa_convert, lines 443-460.
eddsa_convert(o) ==
  By("eddsa_convert",
     CASE o.conv = "to_EVP_PKEY" ->
            << Event("eddsa_pk_to_EVP_PKEY", 0, 0) >>
       [] o.conv = "pk_new" ->
            << Event("eddsa_pk_to_EVP_PKEY", 1, 0),
               Event("eddsa_pk_new", 0, 0),
               Event("EVP_PKEY_free", 0, 0) >>
       [] OTHER ->
            << Event("eddsa_pk_to_EVP_PKEY", 1, 0),
               Event("eddsa_pk_new", 1, 0),
               Event("eddsa_pk_from_EVP_PKEY", 0, 0),
               Event("eddsa_pk_free", 0, 0),
               Event("EVP_PKEY_free", 0, 0) >>)

\* verify_assert, lines 392-414, called for index i with algorithm alg; the
\* hash, the identifier, the authenticator data and the signature it is
\* given are read from the assertion of the caller.
verify_assert(o, p, i, alg) ==
  By("verify_assert",
     IF i \in o.vnull THEN << Event("fido_assert_new", 0, 0) >>
     ELSE << Event("fido_assert_new", 1, 0),
             Event("fido_assert_set_clientdata_hash", 0, 0),
             Event("fido_assert_set_rp", 0, 0),
             Event("fido_assert_set_count", 1, 0),
             Event("fido_assert_set_authdata", 0, 0),
             Event("fido_assert_set_extensions", p.ext, 0) >>
          \o (IF p.up % 2 = 1 THEN << Event("fido_assert_set_up", 0, 0) >>
              ELSE << >>)
          \o (IF p.uv % 2 = 1 THEN << Event("fido_assert_set_uv", 0, 0) >>
              ELSE << >>)
          \o << Event("fido_assert_set_sig", 0, 0),
                Event("fido_assert_verify", 0, alg),
                Event("fido_assert_free", 0, 0) >>)

\* Lines 483-518: the key of the algorithm the credential type selects.
KeyFor(type) ==
  CASE type % 4 = 0 ->
         [alg |-> COSE_ES256, new |-> "es256_pk_new",
          from |-> "es256_pk_from_ptr", blob |-> "es256",
          convert |-> "none"]
    [] type % 4 = 1 ->
         [alg |-> COSE_RS256, new |-> "rs256_pk_new",
          from |-> "rs256_pk_from_ptr", blob |-> "rs256",
          convert |-> "rs256_convert"]
    [] OTHER ->
         [alg |-> COSE_EDDSA, new |-> "eddsa_pk_new",
          from |-> "eddsa_pk_from_ptr", blob |-> "eddsa",
          convert |-> "eddsa_convert"]

\* Lines 503 and 515: the conversion helper of key k is called and runs.
Convert(k, o) ==
  CASE k.convert = "rs256_convert" ->
         << Event("rs256_convert", 0, 0) >> \o rs256_convert(o)
    [] k.convert = "eddsa_convert" ->
         << Event("eddsa_convert", 0, 0) >> \o eddsa_convert(o)
    [] OTHER -> << >>

\* Lines 554-559.
Cleanup ==
  << Event("es256_pk_free", 0, 0), Event("rs256_pk_free", 0, 0),
     Event("eddsa_pk_free", 0, 0), Event("fido_assert_free", 0, 0) >>

\* fido_assert_count(assert) after get_assert returned.
fido_assert_count(o) == IF o.fail = "none" THEN o.count ELSE 0

\* Lines 530-551: the body of the loop for index i.
Iteration(o, p, alg, i) ==
  << Event("verify_assert", i, alg) >>
  \o verify_assert(o, p, i, alg)
  \o Repeat(6, Event("consume", i, 0))
  \o << Event("fido_assert_flags", i, 0), Event("consume", i, 0) >>

\* Lines 529-552 from index i on, the loop ending after index last; every
\* test of the loop calls fido_assert_count.
RECURSIVE Iterations(_, _, _, _, _)
Iterations(o, p, alg, i, last) ==
  << Event("fido_assert_count", fido_assert_count(o), 0) >>
  \o (IF i > last THEN << >>
      ELSE Iteration(o, p, alg, i) \o Iterations(o, p, alg, i + 1, last))

\* A loop that stops at the last statement reported.
VerifyUpToCount(o, p, alg) ==
  Iterations(o, p, alg, 0, fido_assert_count(o) - 1)

\* Lines 528-552: one iteration per index 0..count.
VerifyLoop(o, p, alg) == Iterations(o, p, alg, 0, fido_assert_count(o))

\* An exercise function that reseeds before it looks at what unpack said.
ReseedAlways(u, r) == srandom(UnsignedOfInt(u.p.seed))

\* Lines 476-479: the source after the unpack result u was looked at.
Reseed(u, r) == IF u.ok THEN srandom(UnsignedOfInt(u.p.seed)) ELSE r

\* The calls made for an accepted record p, lines 479-561.
Exercise(o, p) ==
  LET k == KeyFor(p.type)
      head == << Event("srandom", srandom(UnsignedOfInt(p.seed)), 0),
                 Event("fido_init", 0, 0) >>
  IN  IF o.fail = "pk_new" THEN head \o << Event(k.new, 0, 0) >>
      ELSE LET key == head
                      \o << Event(k.new, 1, 0),
                            Event(k.from, Len(p[k.blob]), 0) >>
                      \o Convert(k, o)
           IN  IF o.fail = "fido_assert_new"
               THEN key \o << Event("fido_assert_new", 0, 0) >> \o Cleanup
               ELSE key
                    \o << Event("fido_assert_new", 1, 0),
                          Event("set_wire_data", Len(p.wire_data), 0) >>
                    \o get_assert(o, p)
                    \o VerifyLoop(o, p, k.alg)
                    \o Cleanup

\* LLVMFuzzerTestOneInput(data, size) entered with the source in state r.
LLVMFuzzerTestOneInput(buf, sz, o, r) ==
  Let1(unpack(buf, sz, ZeroParam),
       LAMBDA u : [ok |-> u.ok, p |-> u.p, rng |-> Reseed(u, r),
                   events |-> IF u.ok THEN Exercise(o, u.p) ELSE << >>])

(***************************************************************************)
(* Inputs.                                                                 *)
(***************************************************************************)
\* Entry-point calls explored from the initial state.
MaxSteps == 2
\* Largest number of statements fido_assert_count reports.
MaxStmt == 1

\* A FIDO2 scenario with short fields.
RecA ==
  [ZeroParam EXCEPT
     !.uv = 1, !.up = 1, !.u2f = 0, !.type = 2, !.cred_count = 1,
     !.ext = 1, !.seed = 6,
     !.rp_id = <<97>>, !.pin = <<49, 50>>,
     !.wire_data = <<1, 2, 3>>, !.rs256 = <<13>>, !.es256 = <<12, 12>>,
     !.eddsa = <<15>>, !.cred = <<11>>, !.cdh = <<3, 3>>]

\* A U2F scenario verified with RS256.
RecB ==
  [RecA EXCEPT !.u2f = 1, !.type = 1, !.uv = 0, !.cred_count = 2,
               !.ext = 0, !.seed = 7, !.wire_data = <<9, 9>>]

\* A scenario whose encoding, once its wire data is re-derived, does not
\* fit the staging buffer.
RecBig ==
  [RecA EXCEPT !.rs256 = Repeat(MAXBLOB, 13), !.es256 = Repeat(MAXBLOB, 12),
               !.eddsa = Repeat(MAXBLOB, 15), !.cred = Repeat(MAXBLOB, 11),
               !.cdh = Repeat(MAXBLOB, 3), !.wire_data = << >>,
               !.pin = Repeat(500, 120)]

Encoding(p) ==
  Let1(pack(BLOBSIZE, p), LAMBDA b : SubSeq(b.blob, 1, b.n))

\* A FIDO2 scenario verified with ES256, its type having a bit above the
\* two that select the algorithm.
RecC == [RecA EXCEPT !.type = 4, !.cred_count = 0, !.seed = 9]

PackedA == Encoding(RecA)
PackedB == Encoding(RecB)
PackedC == Encoding(RecC)
PackedBig == Encoding(RecBig)
\* PackedA cut inside the length of its relying-party identifier.
TruncA == SubSeq(PackedA, 1, 25)

\* The units the engine holds besides the one it handled last.
Corpus == { << >>, TruncA, PackedA }

MaxSizes == { 0, 128, BLOBSIZE }

\* Seeds 7 and 4294967294.
Seeds == { [hi |-> 0, lo |-> 7], [hi |-> 65535, lo |-> 65534] }

\* What the library does in an exercise call.  A failure inside a helper
\* does not change what its caller does next, so each of them is paired
\* with one failure of the caller's own calls; the runs in which every
\* call of get_assert succeeds have no failure in a helper.
Outcomes ==
  { [fail |-> "pk_new", count |-> 0, conv |-> "none", vnull |-> {}],
    [fail |-> "fido_assert_new", count |-> 0, conv |-> "EVP_PKEY_get0_RSA",
     vnull |-> {}],
    [fail |-> "fido_dev_new", count |-> 0, conv |-> "to_EVP_PKEY",
     vnull |-> {}],
    [fail |-> "fido_dev_set_io_functions", count |-> 0, conv |-> "pk_new",
     vnull |-> {}],
    [fail |-> "fido_dev_open", count |-> 0, conv |-> "none",
     vnull |-> {0}] }
  \cup { [fail |-> "none", count |-> n, conv |-> "none", vnull |-> {}] :
           n \in 0..MaxStmt }

\* Records handed to pack by the codec harness.
CodecRecords ==
  { [RecA EXCEPT !.uv = uv, !.ext = ext, !.seed = seed, !.rp_id = rp,
                 !.cdh = cdh, !.cred = cred] :
      uv \in {0, 255},
      ext \in {-1, 2147483647},
      seed \in {0, (-2147483647) - 1},
      rp \in { << >>, <<97, 98>> },
      cdh \in { << >>, <<3, 3>> },
      cred \in { << >>, <<0, 255>> } }
  \cup { ZeroParam, DummyParam, RecA, RecB,
         [RecA EXCEPT !.pin = Repeat(MAXSTR - 1, 120),
                      !.wire_data = Repeat(MAXBLOB, 9)] }

\* Capacities handed to pack by the codec harness.
PackLens == { 0, 60, BLOBSIZE }

(***************************************************************************)
(* The state machine.                                                      *)
(***************************************************************************)
NoOutcome == [fail |-> "none", count |-> 0, conv |-> "none", vnull |-> {}]

NotTested ==
  [called |-> FALSE, input |-> << >>, ok |-> FALSE, p |-> ZeroParam,
   rng_in |-> 0, o |-> NoOutcome]

NoResult == [ok |-> FALSE, err |-> "", p |-> ZeroParam, c |-> Cursor(0)]

codec == <<cop, crec, cbuf, cn, ck, cres>>
harness == <<data, size, rng, hist, events, tested, steps>>

Init ==
  /\ data = << >>
  /\ size = 0
  /\ rng = 1
  /\ hist = << >>
  /\ events = << >>
  /\ tested = NotTested
  /\ steps = 0
  /\ cop = "idle"
  /\ crec = ZeroParam
  /\ cbuf = << >>
  /\ cn = 0
  /\ ck = 0
  /\ cres = NoResult

\* The units the engine can hand to the mutator.
Units == Corpus \cup { PackedBig, SubSeq(data, 1, size) }

\* The buffer that held c after memcpy wrote bytes at its start.
Overwrite(c, bytes) == bytes \o SubSeq(c, Len(bytes) + 1, Len(c))

\* The engine loads unit c into its buffer and calls the mutator.
Mutate(c, maxsize, seed) ==
  /\ steps < MaxSteps
  /\ Len(c) <= maxsize
  /\ \E res \in { LLVMFuzzerCustomMutator(c, Len(c), maxsize, seed, rng) } :
       /\ data' = Overwrite(c, res.bytes)
       /\ size' = IF res.n = 0 THEN Len(c) ELSE res.n
       /\ rng' = res.rng
       /\ hist' = Append(hist, [before |-> c, maxsize |-> maxsize,
                                seed |-> seed, rng_in |-> rng,
                                rng_out |-> res.rng, ret |-> res.n,
                                written |-> res.bytes,
                                abort |-> res.abort])
  /\ events' = << >>
  /\ tested' = NotTested
  /\ steps' = steps + 1
  /\ UNCHANGED codec

\* The units the engine can hand to the exercise function.
ExerciseUnits == Corpus \cup { PackedB, PackedC, SubSeq(data, 1, size) }

\* The engine loads unit c into its buffer and calls the exercise function.
Test(c, o) ==
  /\ steps < MaxSteps
  /\ \E res \in { LLVMFuzzerTestOneInput(c, Len(c), o, rng) } :
       /\ rng' = res.rng
       /\ events' = res.events
       /\ tested' = [called |-> TRUE, input |-> c, ok |-> res.ok,
                     p |-> res.p, rng_in |-> rng,
                     o |-> IF res.ok THEN o ELSE NoOutcome]
  /\ data' = c
  /\ size' = Len(c)
  /\ steps' = steps + 1
  /\ UNCHANGED <<hist, codec>>

Next ==
  \/ \E c \in Units, m \in MaxSizes, s \in Seeds : Mutate(c, m, s)
  \/ \E c \in ExerciseUnits, o \in Outcomes : Test(c, o)

Spec == Init /\ [][Next]_vars

\* Codec harness: pack a record, then unpack the result or a prefix of it.
Pack(r, len) ==
  /\ cop = "idle"
  /\ \E b \in { pack(len, r) } :
       /\ cbuf' = b.blob
       /\ cn' = b.n
  /\ crec' = r
  /\ cop' = "pack"
  /\ ck' = 0
  /\ cres' = NoResult
  /\ UNCHANGED harness

Unpack ==
  /\ cop = "pack"
  /\ cn > 0
  /\ cres' = unpack(cbuf, cn, ZeroParam)
  /\ ck' = cn
  /\ cop' = "unpack"
  /\ UNCHANGED <<crec, cbuf, cn, harness>>

UnpackPrefix(k) ==
  /\ cop = "pack"
  /\ cn > 0
  /\ cres' = unpack(cbuf, k, ZeroParam)
  /\ ck' = k
  /\ cop' = "prefix"
  /\ UNCHANGED <<crec, cbuf, cn, harness>>

NextCodec ==
  \/ \E r \in CodecRecords, len \in PackLens : Pack(r, len)
  \/ Unpack
  \/ \E k \in 0..(cn - 1) : UnpackPrefix(k)

SpecCodec == Init /\ [][NextCodec]_vars

(***************************************************************************)
(* Properties.                                                             *)
(***************************************************************************)
\* The bytes a mutator call returned: the first ret bytes of the buffer.
Returned(h) ==
  Let1(Overwrite(h.before, h.written), LAMBDA after :
    SubSeq(after, 1, Min(h.ret, Len(after))))

\* A mutator call h with what unpack says of its input and of what it
\* returned.
Obs(h) ==
  Let1(unpack(h.before, Len(h.before), ZeroParam), LAMBDA u :
  Let1(Returned(h), LAMBDA b :
  Let1(unpack(b, Len(b), ZeroParam), LAMBDA v :
    [h |-> h, in |-> u, bytes |-> b, out |-> v])))

\* The mutator calls made so far.
Calls == { Obs(hist[i]) : i \in 1..Len(hist) }

\* The bytes returned decode to a record whose encoding is those bytes and
\* decodes to the same record.
RoundTrips(x) ==
  /\ x.out.ok
  /\ \E e \in { pack(BLOBSIZE, x.out.p) } :
       /\ e.n = Len(x.bytes)
       /\ SubSeq(e.blob, 1, e.n) = x.bytes
       /\ \E v \in { unpack(e.blob, e.n, ZeroParam) } :
            v.ok /\ v.p = x.out.p

\* The encoding of the canonical record in the staging buffer.
Canonical == Encoding(DummyParam)

\* The first n bytes of the canonical encoding.
CanonicalPrefix(n) == SubSeq(Canonical, 1, Min(n, Len(Canonical)))

\* What pack returned for the staging buffer in call x.
Staged(x) ==
  IF x.in.ok
  THEN pack(BLOBSIZE, MutatedRecord(x.in.p, x.h.seed, x.h.rng_in).p).n
  ELSE pack(BLOBSIZE, DummyParam).n

\* The positions, in the last exercise call, of the calls made by
\* LLVMFuzzerTestOneInput itself and by get_assert: those on the key, the
\* assertion and the device of the record, as opposed to the scratch
\* objects of verify_assert, rs256_convert and eddsa_convert.
Own ==
  { i \in 1..Len(events) :
      events[i].by \in { "LLVMFuzzerTestOneInput", "get_assert" } }

\* The positions of the calls of op among them.
OwnAt(op) == { i \in Own : events[i].op = op }

\* Number of those calls that are calls of op.
Count(op) == Cardinality(OwnAt(op))

\* Index of the first of those calls of op, 0 if none.
First(op) ==
  IF OwnAt(op) = {} THEN 0
  ELSE CHOOSE i \in OwnAt(op) : \A j \in OwnAt(op) : i <= j

\* Some of those calls of op succeeded.
Succeeded(op) == \E i \in OwnAt(op) : events[i].a = 1

\* The calls on the transport.
DeviceCalls ==
  { "set_wire_data", "fido_dev_new", "fido_dev_set_io_functions",
    "fido_dev_open", "fido_dev_force_u2f", "fido_dev_get_assert",
    "fido_dev_cancel", "fido_dev_close", "fido_dev_free" }

\* The helpers verify_assert, rs256_convert and eddsa_convert make no call
\* on the transport.
HelpersOffDevice ==
  \A i \in 1..Len(events) : i \notin Own => events[i].op \notin DeviceCalls

\* C1: round trip.  Whenever pack wrote a record whose fields are within
\* their capacities, unpack of the bytes written succeeds, consumes all of
\* them and yields a record equal to the one packed in every field.
C1_RoundTrip ==
  cop = "unpack" =>
    /\ cres.ok
    /\ cres.p = crec
    /\ cres.c.pos = cn
    /\ cres.c.len = 0

\* C1 witness: a packed record with a negative extension mask, a non-empty
\* relying-party identifier and a credential holding the bytes 0 and 255 was
\* unpacked.
C1_Witness ==
  /\ cop = "unpack"
  /\ crec.ext = -1
  /\ crec.seed < 0
  /\ crec.rp_id = <<97, 98>>
  /\ crec.cred = <<0, 255>>
  /\ cres.ok

\* C4: truncation safety.  unpack of a proper prefix of an encoding fails
\* and reads no byte at or beyond the prefix length.
C4_TruncationSafety ==
  cop = "prefix" => ~cres.ok /\ cres.c.rd <= ck

\* C4 witness: a prefix that ends exactly in front of the last field, all
\* fourteen fields in front of it being filled in.
C4_Witness ==
  /\ cop = "prefix"
  /\ ck = cn - (9 + Len(crec.cdh))
  /\ Len(crec.cdh) > 0
  /\ cres.p.cred = crec.cred
  /\ cres.p.cred # << >>
  /\ ~cres.ok

\* C2: every mutator call returns 0 or leaves exactly the returned number
\* of bytes, forming a record that unpack accepts and that round-trips.
\* pack_dummy (lines 595-598) breaks it: it copies the first maxsize bytes of
\* the canonical encoding and returns maxsize.
C2_MutatorValidity ==
  \A x \in Calls :
    x.h.ret = 0 \/ (Len(x.bytes) = x.h.ret /\ RoundTrips(x))

\* C2 witness: unpack rejected the input, maxsize was positive and smaller
\* than the canonical encoding, and the call returned maxsize with a proper
\* prefix of that encoding in the buffer, which unpack rejects.
C2_Witness ==
  \E x \in Calls :
    /\ ~x.in.ok
    /\ x.h.maxsize > 0
    /\ x.h.maxsize < Len(Canonical)
    /\ x.h.ret = x.h.maxsize
    /\ x.bytes = CanonicalPrefix(x.h.maxsize)
    /\ ~x.out.ok

\* C3 as stated: two mutator calls with the same input, maxsize and seed
\* return the same length and the same bytes, whatever was called before
\* each of them.
C3_Determinism ==
  \A i, j \in 1..Len(hist) :
    (/\ hist[i].before = hist[j].before
     /\ hist[i].maxsize = hist[j].maxsize
     /\ hist[i].seed = hist[j].seed) =>
      /\ hist[i].ret = hist[j].ret
      /\ Returned(hist[i]) = Returned(hist[j])

\* C5: mutator fallback.  Two calls whose inputs unpack rejects and whose
\* maxsize is the same return the same length and bytes, whatever the
\* inputs, the fields unpack filled in, the seeds and the state of the
\* source; what is returned is the start of the encoding of the canonical
\* record (type 1, HMAC-secret extension, rp_id "localhost", FIDO2 wire
\* data); the source is not drawn from and the run does not abort.
C5_Fallback ==
  \E S \in { Calls } :
  /\ \A x, y \in S :
       (~x.in.ok /\ ~y.in.ok /\ x.h.maxsize = y.h.maxsize) =>
         x.h.ret = y.h.ret /\ x.bytes = y.bytes
  /\ \A x \in S :
       ~x.in.ok =>
         /\ ~x.h.abort
         /\ x.h.rng_out = x.h.rng_in
         /\ x.h.ret = Min(x.h.maxsize, Len(Canonical))
         /\ x.bytes = CanonicalPrefix(x.h.maxsize)
         /\ x.out.ok =>
              /\ x.out.p.type = 1
              /\ x.out.p.ext = FIDO_EXT_HMAC_SECRET
              /\ x.out.p.rp_id = <<108, 111, 99, 97, 108, 104, 111, 115, 116>>
              /\ x.out.p.wire_data = dummy_wire_data_fido

\* C5 witness: two fallback calls with different rejected inputs, one of
\* which had leading fields filled in, different seeds and the same maxsize
\* returned the canonical record.
C5_Witness ==
  \E x, y \in Calls :
    /\ ~x.in.ok
    /\ ~y.in.ok
    /\ x.h.before # y.h.before
    /\ x.in.p.uv # 0
    /\ x.h.seed # y.h.seed
    /\ x.h.maxsize = y.h.maxsize
    /\ x.h.ret = Len(Canonical)
    /\ x.out.ok

\* C6: exercise skip on invalid input.  When unpack rejects the input of
\* the exercise function, no call is made to the library or the transport
\* and the source is left as it was.
C6_SkipOnInvalid ==
  (tested.called /\ ~tested.ok) => events = << >> /\ rng = tested.rng_in

\* C6 witness: the exercise function was given an input that fails after
\* unpack has filled in the seed, which differs from the state of the source.
C6_Witness ==
  /\ tested.called
  /\ ~tested.ok
  /\ tested.p.seed # 0
  /\ srandom(UnsignedOfInt(tested.p.seed)) # tested.rng_in

\* w is base or base after one edit of mutate_blob.
OneEdit(base, w) ==
  \/ w = base
  \/ /\ Len(w) = Len(base)
     /\ Cardinality({ i \in 1..Len(w) : w[i] # base[i] }) = 1
  \/ Len(w) = Len(base) + 1 /\ SubSeq(w, 1, Len(base)) = base
  \/ Len(w) = Len(base) - 1 /\ w = SubSeq(base, 1, Len(w))

\* C7: wire-data re-derivation.  The wire data of a record the mutator
\* returns for an accepted input is the U2F example when the low bit of the
\* returned transport flag is 1 and the FIDO2 example otherwise, up to the
\* one edit the blob mutation makes.
C7_WireData ==
  \A x \in Calls :
    (x.in.ok /\ x.h.ret > 0) =>
      /\ x.out.ok
      /\ OneEdit(WireDataFor(x.out.p.u2f), x.out.p.wire_data)

\* C7 witness: a call returned a U2F record for an input that was a FIDO2
\* record with wire data of its own.
C7_Witness ==
  \E x \in Calls :
    /\ x.in.ok
    /\ x.h.ret > 0
    /\ x.in.p.u2f % 2 = 0
    /\ x.in.p.wire_data # << >>
    /\ x.out.ok
    /\ x.out.p.u2f % 2 = 1

\* C8 as stated: every non-empty buffer the mutator returns encodes a record
\* whose seed field is (int)seed.
C8_AsStated ==
  \A x \in Calls :
    x.h.ret > 0 => x.out.ok /\ x.out.p.seed = IntOfUnsigned(x.h.seed)

\* C8 amended: every non-empty buffer the mutator returns for an input that
\* unpack accepts encodes a record whose seed field is (int)seed; a record
\* returned for an input that unpack rejects has the seed field 0.
C8_SeedPropagation ==
  \A x \in Calls :
    /\ (x.in.ok /\ x.h.ret > 0) =>
         x.out.ok /\ x.out.p.seed = IntOfUnsigned(x.h.seed)
    /\ (~x.in.ok /\ x.out.ok) => x.out.p.seed = 0

\* C8 witness: a call with a seed above 2^31 returned a record with a
\* negative seed field for an input whose seed field was another value.
C8_Witness ==
  \E x \in Calls :
    /\ x.in.ok
    /\ x.h.ret > 0
    /\ x.h.seed.hi >= 32768
    /\ x.out.ok
    /\ x.out.p.seed < 0
    /\ x.in.p.seed # x.out.p.seed

\* The bytes memcpy wrote lie within the first maxsize bytes of the buffer.
TailKept(h) == Len(h.written) <= h.maxsize

\* C9: the length returned is at most maxsize, no byte beyond maxsize is
\* written, and a record that does not encode into the staging buffer or
\* encodes to more than maxsize bytes makes the mutator return 0.  The size
\* bound holds; the failure signal does not on the path of lines 617-618,
\* where pack_dummy returns maxsize for an encoding longer than maxsize.
C9_SizeBound ==
  \A x \in Calls :
    /\ x.h.ret <= x.h.maxsize
    /\ TailKept(x.h)
    /\ \E n \in { Staged(x) } : (n = 0 \/ n > x.h.maxsize) => x.h.ret = 0

\* C9 witness: the canonical record was staged, its encoding is longer than
\* maxsize, and the call returned a nonzero length and wrote that many
\* bytes.
C9_Witness ==
  \E x \in Calls :
    /\ ~x.in.ok
    /\ Staged(x) > x.h.maxsize
    /\ x.h.ret > 0
    /\ Len(x.h.written) = x.h.ret

\* The device calls of the last exercise call, in the order of a run in
\* which the device opens.
InOrder ==
  /\ First("set_wire_data") < First("fido_dev_open")
  /\ First("fido_dev_open") < First("fido_dev_get_assert")
  /\ First("fido_dev_get_assert") < First("fido_dev_cancel")
  /\ First("fido_dev_cancel") < First("fido_dev_close")
  /\ First("fido_dev_close") < First("fido_dev_free")

\* C10 as stated: for every input unpack accepts the wire data is set and
\* the device opened, used for one get-assertion, cancelled, closed and
\* freed, each once and in that order.
C10_AsStated ==
  (tested.called /\ tested.ok) =>
    /\ HelpersOffDevice
    /\ Count("set_wire_data") = 1
    /\ Count("fido_dev_open") = 1
    /\ Succeeded("fido_dev_open")
    /\ Count("fido_dev_get_assert") = 1
    /\ Count("fido_dev_cancel") = 1
    /\ Count("fido_dev_close") = 1
    /\ Count("fido_dev_free") = 1
    /\ InOrder

\* C10 amended: for every input unpack accepts, once the key and the
\* assertion object are allocated the wire data is set once and the device
\* handle freed once, last of the device calls; the device is opened at
\* most once; when it opens, get-assertion, cancel and close follow once
\* each in that order; when creating, wiring or opening it fails, none of
\* the three is called; when the key or the assertion object cannot be
\* allocated, neither the wire data nor the device is touched.
C10_Lifecycle ==
  (tested.called /\ tested.ok) =>
    /\ HelpersOffDevice
    /\ Count("fido_dev_open") <= 1
    /\ Count("set_wire_data") <= 1
    /\ Succeeded("fido_assert_new") =>
         /\ Count("set_wire_data") = 1
         /\ Count("fido_dev_new") = 1
         /\ Count("fido_dev_free") = 1
         /\ First("set_wire_data") < First("fido_dev_new")
    /\ ~Succeeded("fido_assert_new") =>
         /\ Count("set_wire_data") = 0
         /\ Count("fido_dev_new") = 0
         /\ Count("fido_dev_open") = 0
         /\ Count("fido_dev_free") = 0
    /\ Succeeded("fido_dev_open") =>
         /\ Count("fido_dev_get_assert") = 1
         /\ Count("fido_dev_cancel") = 1
         /\ Count("fido_dev_close") = 1
         /\ InOrder
    /\ ~Succeeded("fido_dev_open") =>
         /\ Count("fido_dev_get_assert") = 0
         /\ Count("fido_dev_cancel") = 0
         /\ Count("fido_dev_close") = 0

\* C10 witness: an accepted U2F record was exercised, the device opened and
\* was closed and freed.
C10_Witness ==
  /\ tested.called
  /\ tested.ok
  /\ tested.p.u2f % 2 = 1
  /\ Succeeded("fido_dev_open")
  /\ Count("fido_dev_close") = 1
  /\ Count("fido_dev_free") = 1

\* C11: no-mutation outcome keeps the input.  Whenever the mutator returns
\* 0 it has written no byte: the caller's buffer is byte for byte what it
\* was on entry, and the engine still holds the whole input.
C11_KeepsInput ==
  /\ \A i \in 1..Len(hist) :
       hist[i].ret = 0 =>
         /\ hist[i].written = << >>
         /\ Overwrite(hist[i].before, hist[i].written) = hist[i].before
  /\ (hist # << >> /\ ~tested.called /\ hist[Len(hist)].ret = 0) =>
       /\ data = hist[Len(hist)].before
       /\ size = Len(data)

\* C11 witness: the mutator returned 0 for a record whose mutated encoding
\* fits the staging buffer and not maxsize, and the buffer still holds the
\* record.
C11_Witness ==
  /\ hist # << >>
  /\ ~tested.called
  /\ \E x \in { Obs(hist[Len(hist)]) } :
       /\ x.in.ok
       /\ x.h.ret = 0
       /\ x.h.before # << >>
       /\ Staged(x) > x.h.maxsize
       /\ data = x.h.before

\* The positions of the verify_assert calls of the last exercise call, in
\* increasing order.
VerifyAt ==
  { i \in 1..Len(events) : events[i].op = "verify_assert" }

\* The algorithm, the key constructor and the key blob that (type & 3)
\* selects.
Selected(p) ==
  CASE p.type % 4 = 0 ->
         [alg |-> COSE_ES256, new |-> "es256_pk_new",
          from |-> "es256_pk_from_ptr", len |-> Len(p.es256)]
    [] p.type % 4 = 1 ->
         [alg |-> COSE_RS256, new |-> "rs256_pk_new",
          from |-> "rs256_pk_from_ptr", len |-> Len(p.rs256)]
    [] p.type % 4 \in {2, 3} ->
         [alg |-> COSE_EDDSA, new |-> "eddsa_pk_new",
          from |-> "eddsa_pk_from_ptr", len |-> Len(p.eddsa)]

\* The calls that build a key.
KeyCalls ==
  { "es256_pk_new", "rs256_pk_new", "eddsa_pk_new",
    "es256_pk_from_ptr", "rs256_pk_from_ptr", "eddsa_pk_from_ptr" }

\* C12: off-by-one verification probe.  Once the assertion object of an
\* accepted record has been created, verify_assert is called count + 1
\* times, for the indices 0..count in increasing order, count being what
\* fido_assert_count reports after get_assert; every call is given the
\* algorithm that (type & 3) selects, which it hands to fido_assert_verify,
\* and the one key LLVMFuzzerTestOneInput built before them is the key of
\* that algorithm, built from the matching blob; the only other key is the
\* scratch key of that algorithm's conversion helper.
C12_VerifyProbe ==
  (tested.called /\ tested.ok /\ Succeeded("fido_assert_new")) =>
    \E k \in { Selected(tested.p) } :
      /\ Cardinality(VerifyAt) = fido_assert_count(tested.o) + 1
      /\ \A i \in VerifyAt :
           /\ events[i].a = Cardinality({ j \in VerifyAt : j < i })
           /\ events[i].b = k.alg
           /\ i > First("fido_dev_free")
           /\ i < First("fido_assert_free")
      /\ \A i \in 1..Len(events) :
           events[i].op = "fido_assert_verify" =>
             /\ events[i].b = k.alg
             /\ events[i].by = "verify_assert"
             /\ \E j \in VerifyAt : j < i /\ i <= j + 11
      /\ { events[i].op : i \in Own } \cap KeyCalls = { k.new, k.from }
      /\ { events[i].op : i \in (1..Len(events)) \ Own } \cap KeyCalls
           \subseteq { k.new }
      /\ Count(k.new) = 1
      /\ Count(k.from) = 1
      /\ events[First(k.from)].a = k.len
      /\ First(k.new) < First(k.from)
      /\ \A i \in VerifyAt : First(k.from) < i

\* C12 witness: a record of type 1 was exercised with one statement
\* reported; rs256_convert built and freed its scratch key, and
\* verify_assert was called for the indices 0 and 1 and verified twice
\* with RS256.
C12_Witness ==
  /\ tested.called
  /\ tested.ok
  /\ tested.p.type = 1
  /\ Succeeded("fido_dev_open")
  /\ fido_assert_count(tested.o) = 1
  /\ Cardinality(VerifyAt) = 2
  /\ \A i \in VerifyAt : events[i].b = COSE_RS256
  /\ Cardinality({ i \in 1..Len(events) :
                     events[i].op = "rs256_pk_new" }) = 2
  /\ Cardinality({ i \in 1..Len(events) :
                     events[i].op = "fido_assert_verify" }) = 2
====
